---- MODULE Spec2Model ----
(***************************************************************************)
(* A model of tool.codeDump (package codedump and its CLI).                *)
(*                                                                         *)
(* Byte strings and paths are sequences of one-character strings, so that  *)
(* substring, prefix, suffix and byte-wise order are computed as the Go    *)
(* code computes them.  The build modelled is the Unix one: the path       *)
(* separator is "/" (Separator).                                           *)
(*                                                                         *)
(* The specifications:                                                     *)
(*   Spec       one run of Dump (Collect's walk, the per-item loop, the    *)
(*              final MkdirAll / WriteFile) over a small file tree;        *)
(*   SpecRace   such a run while another process rewrites the files;       *)
(*   SpecInclude  such a run with an include filter;                       *)
(*   SpecStrip  StripPackageLine applied (twice) to bounded inputs;        *)
(*   SpecCLI    the CLI's main building the Config from defaults, the RC   *)
(*              file and the flags.                                        *)
(***************************************************************************)
EXTENDS Integers, Sequences, FiniteSets, TLC

VARIABLES
    \* ---- Spec: the file system and one run of Dump
    c,          \* the Config passed to Dump
    disk,       \* regular files: absolute path -> bytes
    dirs,       \* existing directories (absolute paths)
    disk0,      \* the files as they were when Dump was called
    dirs0,      \* the directories as they were when Dump was called
    pc,         \* position of the run inside Dump / Collect
    queue,      \* WalkDir: paths still to be visited, in visiting order
    cur,        \* Collect: the file being stat'ed / read, and its size
    out,        \* Collect: the accumulated []Item
    items,      \* Dump: the list returned by Collect
    idx,        \* Dump: index of the per-item loop
    buf,        \* Dump: the bytes.Buffer
    ret,        \* Dump's return value (path, n, err)
    \* ---- SpecStrip
    src,        \* the raw bytes of a file (data)
    pkg,       \* the Pkg of the run that emits them
    emitted,    \* what Dump emits for them (content)
    once,       \* StripPackageLine(src)
    twice,      \* StripPackageLine(StripPackageLine(src))
    spc,        \* position of the SpecStrip run
    \* ---- SpecCLI
    fl,         \* the values the flag package leaves in flRoot .. flPkg
    given,      \* the flags that were given on the command line
    rc,         \* the RC file: "none" or its key=value lines
    cli,        \* main's Config c
    mpc         \* position inside main

vars == <<c, disk, dirs, disk0, dirs0, pc, queue, cur, out, items, idx, buf, ret,
          src, pkg, emitted, once, twice, spc, fl, given, rc, cli, mpc>>

dumpVars == <<c, disk, dirs, disk0, dirs0, pc, queue, cur, out, items, idx, buf, ret>>
stripVars == <<src, pkg, emitted, once, twice, spc>>
cliVars == <<fl, given, rc, cli, mpc>>

-----------------------------------------------------------------------------
(* Bytes                                                                   *)

\* The byte value of a character (ASCII), as Go's string comparison reads it.
Byte(ch) ==
    CASE ch = "\t" -> 9  [] ch = "\n" -> 10 [] ch = "\r" -> 13 [] ch = " " -> 32
      [] ch = "," -> 44  [] ch = "-" -> 45  [] ch = "." -> 46  [] ch = "/" -> 47
      [] ch = ":" -> 58  [] ch = "=" -> 61  [] ch = "D" -> 68  [] ch = "O" -> 79
      [] ch = "T" -> 84  [] ch = "_" -> 95
      [] ch = "a" -> 97  [] ch = "b" -> 98  [] ch = "c" -> 99  [] ch = "d" -> 100
      [] ch = "e" -> 101 [] ch = "g" -> 103 [] ch = "k" -> 107 [] ch = "m" -> 109
      [] ch = "o" -> 111 [] ch = "p" -> 112 [] ch = "t" -> 116 [] ch = "w" -> 119
      [] ch = "x" -> 120 [] ch = "y" -> 121 [] ch = "z" -> 122
      [] OTHER -> 126

\* Go's s < t on strings: byte-wise lexicographic order.
RECURSIVE StrLess(_, _)
StrLess(s, t) ==
    IF t = <<>> THEN FALSE
    ELSE IF s = <<>> THEN TRUE
    ELSE IF s[1] = t[1] THEN StrLess(Tail(s), Tail(t))
    ELSE Byte(s[1]) < Byte(t[1])

\* strings.HasPrefix / bytes.HasPrefix
HasPrefix(s, p) == Len(p) <= Len(s) /\ SubSeq(s, 1, Len(p)) = p

\* strings.HasSuffix
HasSuffix(s, p) == Len(p) <= Len(s) /\ SubSeq(s, Len(s) - Len(p) + 1, Len(s)) = p

\* strings.Contains
Contains(s, sub) ==
    \E i \in 1..(Len(s) - Len(sub) + 1) : SubSeq(s, i, i + Len(sub) - 1) = sub

\* The ASCII white space of strings.TrimSpace / bytes.TrimSpace.
IsSpace(ch) == ch \in {" ", "\t", "\n", "\r"}

\* strings.TrimSpace / bytes.TrimSpace
RECURSIVE TrimLeft(_)
TrimLeft(s) == IF s # <<>> /\ IsSpace(s[1]) THEN TrimLeft(Tail(s)) ELSE s

RECURSIVE TrimRight(_)
TrimRight(s) ==
    IF s # <<>> /\ IsSpace(s[Len(s)]) THEN TrimRight(SubSeq(s, 1, Len(s) - 1)) ELSE s

TrimSpace(s) == TrimRight(TrimLeft(s))

\* strings.Split / bytes.Split on a one-byte separator: always at least one part.
RECURSIVE SplitOn(_, _)
SplitOn(s, sep) ==
    IF \A i \in 1..Len(s) : s[i] # sep THEN <<s>>
    ELSE LET i == CHOOSE j \in 1..Len(s) :
                      s[j] = sep /\ \A k \in 1..(j - 1) : s[k] # sep
         IN  <<SubSeq(s, 1, i - 1)>> \o SplitOn(SubSeq(s, i + 1, Len(s)), sep)

\* strings.Join / bytes.Join with a one-byte separator.
RECURSIVE JoinWith(_, _)
JoinWith(parts, sep) ==
    IF parts = <<>> THEN <<>>
    ELSE IF Len(parts) = 1 THEN parts[1]
    ELSE parts[1] \o <<sep>> \o JoinWith(Tail(parts), sep)

\* Concatenation of a sequence of sequences.
RECURSIVE Flatten(_)
Flatten(ss) == IF ss = <<>> THEN <<>> ELSE ss[1] \o Flatten(Tail(ss))

-----------------------------------------------------------------------------
(* StripPackageLine                                                        *)

\* []byte("package ")
PackagePrefix == <<"p", "a", "c", "k", "a", "g", "e", " ">>

\* A slip that tests the line as it is, untrimmed.
IsPackageLineUntrimmed(ln) == HasPrefix(ln, PackagePrefix)

\* The condition of the loop's if, without the skipped flag.
IsPackageLine(ln) == HasPrefix(TrimSpace(ln), PackagePrefix)

\* The loop of StripPackageLine over the remaining lines, with its skipped flag.
RECURSIVE StripLoop(_, _)
StripLoop(lines, skipped) ==
    IF lines = <<>> THEN <<>>
    ELSE IF ~skipped /\ IsPackageLine(lines[1]) THEN StripLoop(Tail(lines), TRUE)
    ELSE <<lines[1]>> \o StripLoop(Tail(lines), skipped)

\* A slip that forgets the skipped flag: every matching line is dropped.
StripPackageLineAll(s) ==
    JoinWith(SelectSeq(SplitOn(s, "\n"), LAMBDA ln : ~IsPackageLine(ln)), "\n")

StripPackageLine(s) == JoinWith(StripLoop(SplitOn(s, "\n"), FALSE), "\n")

-----------------------------------------------------------------------------
(* Paths (path/filepath on a Unix build)                                   *)

\* os.PathSeparator
Separator == "/"

\* filepath.ToSlash: every Separator replaced by a slash.
ToSlash(p) == [i \in 1..Len(p) |-> IF p[i] = Separator THEN "/" ELSE p[i]]

\* filepath.IsAbs
IsAbs(p) == HasPrefix(p, <<Separator>>)

\* The non-empty elements of a path.
Elements(p) == SelectSeq(SplitOn(p, Separator), LAMBDA e : e # <<>>)

\* filepath.Clean's pass over the elements: "." dropped, ".." removing the
\* element before it, or dropped at the root, or kept in a relative path.
RECURSIVE CleanLoop(_, _, _)
CleanLoop(elems, kept, rooted) ==
    IF elems = <<>> THEN kept
    ELSE LET e == elems[1]
             rest == Tail(elems)
         IN  IF e = <<".">> THEN CleanLoop(rest, kept, rooted)
             ELSE IF e = <<".", ".">>
                  THEN IF kept # <<>> /\ kept[Len(kept)] # <<".", ".">>
                       THEN CleanLoop(rest, SubSeq(kept, 1, Len(kept) - 1), rooted)
                       ELSE IF rooted THEN CleanLoop(rest, kept, rooted)
                       ELSE CleanLoop(rest, Append(kept, e), rooted)
             ELSE CleanLoop(rest, Append(kept, e), rooted)

\* filepath.Clean
Clean(p) ==
    LET body == JoinWith(CleanLoop(Elements(p), <<>>, IsAbs(p)), Separator)
    IN  IF IsAbs(p) THEN <<Separator>> \o body
        ELSE IF body = <<>> THEN <<".">> ELSE body

\* filepath.Join of two elements: empty elements are ignored, the result is Cleaned.
Join(a, b) ==
    IF a = <<>> /\ b = <<>> THEN <<>>
    ELSE IF a = <<>> THEN Clean(b)
    ELSE IF b = <<>> THEN Clean(a)
    ELSE Clean(a \o <<Separator>> \o b)

\* filepath.Base
Base(p) ==
    IF p = <<>> THEN <<".">>
    ELSE LET es == Elements(p)
         IN  IF es = <<>> THEN <<Separator>> ELSE es[Len(es)]

\* filepath.Dir
Dir(p) ==
    IF \A i \in 1..Len(p) : p[i] # Separator THEN <<".">>
    ELSE LET i == CHOOSE j \in 1..Len(p) :
                      p[j] = Separator /\ \A k \in (j + 1)..Len(p) : p[k] # Separator
         IN  Clean(SubSeq(p, 1, i))

\* os.Getwd: the process's working directory.
Getwd == <<"/", "w">>

\* filepath.Abs
Abs(p) == IF IsAbs(p) THEN Clean(p) ELSE Join(Getwd, p)

\* Length of the longest common prefix of two element lists.
RECURSIVE CommonLen(_, _)
CommonLen(a, b) ==
    IF a # <<>> /\ b # <<>> /\ a[1] = b[1] THEN 1 + CommonLen(Tail(a), Tail(b)) ELSE 0

\* filepath.Rel for two absolute paths (it cannot fail for them).
Rel(base, targ) ==
    LET be == Elements(Clean(base))
        te == Elements(Clean(targ))
        k == CommonLen(be, te)
        ups == [i \in 1..(Len(be) - k) |-> <<".", ".">>]
        r == JoinWith(ups \o SubSeq(te, k + 1, Len(te)), Separator)
    IN  IF r = <<>> THEN <<".">> ELSE r

AbsFrom(base, p) == IF IsAbs(p) THEN p ELSE Abs(Join(base, p))

SplitClean(s) ==
    SelectSeq([i \in 1..Len(SplitOn(s, ",")) |-> ToSlash(TrimSpace(SplitOn(s, ",")[i]))],
              LAMBDA e : e # <<>>)

-----------------------------------------------------------------------------
(* The file tree and the Configs of the Dump runs                          *)

\* At most this many regular files exist in the tree when Dump is called.
MaxFiles == 3

\* The files that may exist below the working directory /w.
CandidateFiles ==
    << <<"/", "w", "/", "a", "/", "x", ".", "g">>,
       <<"/", "w", "/", "a", "-", "b", "/", "y", ".", "g">>,
       <<"/", "w", "/", "d", "/", "o", ".", "g">>,
       <<"/", "w", "/", "a", ".", "t">> >>

\* File contents: empty, no final newline, only a package line, a package
\* line followed by code.
Contents ==
    << <<>>,
       <<"x">>,
       <<"p", "a", "c", "k", "a", "g", "e", " ", "m">>,
       <<"p", "a", "c", "k", "a", "g", "e", " ", "m", "\n", "x", "\n">> >>

Targets == { <<".">>, <<"a", "-", "b">> }
Roots == { <<".">>, <<"d">> }
Outs == { <<"o", ".", "g">>,
          <<"d", "/", "o", ".", "g">>,
          <<"/", "w", "/", "d", "/", "o", ".", "g">> }
Exts == { <<".", "g">>, <<>> }
Includes == { <<>>, <<"a">> }
Excludes == { <<>>,
              <<" ", "/", "a", "/", " ", ",", ",", "a", "-", "b">> }

Configs ==
    [Root : Roots, Target : Targets, Out : Outs, Ext : Exts,
     Include : Includes, Exclude : Excludes, Pkg : BOOLEAN]

\* The directories above a clean absolute path, the root included.
RECURSIVE Ancestors(_)
Ancestors(p) ==
    IF p = <<Separator>> THEN {} ELSE {Dir(p)} \cup Ancestors(Dir(p))

\* Dump's three resolved paths.
rootAbs == AbsFrom(Getwd, c.Root)
targetAbs == AbsFrom(Getwd, c.Target)
outAbs == AbsFrom(rootAbs, c.Out)

\* What a reader finds at a path: the bytes of a regular file, or that there
\* is a directory or nothing.
Lookup(files, ds, p) ==
    IF Clean(p) \in DOMAIN files THEN [kind |-> "file", bytes |-> files[Clean(p)]]
    ELSE IF Clean(p) \in ds THEN [kind |-> "dir"]
    ELSE [kind |-> "absent"]

IsDir(p) == Clean(p) \in dirs
IsFile(p) == Clean(p) \in DOMAIN disk

\* The names in a directory.
Names(p) == {Base(q) : q \in {r \in (DOMAIN disk \cup dirs) :
                                  r # <<Separator>> /\ Dir(r) = Clean(p)}}

\* A set of strings as the list in byte-wise order (os.ReadDir sorts by name).
RECURSIVE SortNames(_)
SortNames(S) ==
    IF S = {} THEN <<>>
    ELSE LET m == CHOOSE x \in S : \A y \in S \ {x} : StrLess(x, y)
         IN  <<m>> \o SortNames(S \ {m})

\* os.ReadDir
ReadDir(p) == SortNames(Names(p))

-----------------------------------------------------------------------------
(* Collect                                                                 *)

\* The inner loop over excl: some non-empty entry occurs in pp.
MatchesExclude(pp, excl) ==
    \E i \in 1..Len(excl) : excl[i] # <<>> /\ Contains(pp, excl[i])

\* A slip that never prunes.
PruneDirNever(path) == FALSE

\* The callback's answer for a directory: filepath.SkipDir.
PruneDir(path) == MatchesExclude(ToSlash(path), SplitClean(c.Exclude))

\* The self-exclusion test.
SelfExcluded(path) == Base(path) = c.Out

\* The include test.
Included(path) == c.Include = <<>> \/ Contains(ToSlash(path), c.Include)

\* The callback's filters for a file: TRUE when the file is to be collected.
SelectFile(path) ==
    /\ HasSuffix(path, c.Ext)
    /\ ~SelfExcluded(path)
    /\ Included(path)
    /\ ~MatchesExclude(ToSlash(path), SplitClean(c.Exclude))

\* hex.EncodeToString(sha256.Sum256(data)): the digest is kept symbolic, a
\* tag followed by the bytes digested, so that equal digests mean equal bytes.
Sha256Hex(data) == <<"sha256:">> \o data

NewItem(path, data, size) ==
    [rel |-> ToSlash(Rel(Getwd, path)), abs |-> path,
     sha |-> Sha256Hex(data), size |-> size]

\* A slip that leaves the items in the walk's order.
SortItemsNone(its) == its

\* sort.Slice(out, func(i, j int) bool { return out[i].rel < out[j].rel })
RECURSIVE SortItems(_)
SortItems(its) ==
    IF its = <<>> THEN <<>>
    ELSE LET i == CHOOSE k \in 1..Len(its) :
                      \A j \in 1..Len(its) : ~StrLess(its[j].rel, its[k].rel)
         IN  <<its[i]>> \o
             SortItems(SubSeq(its, 1, i - 1) \o SubSeq(its, i + 1, Len(its)))

\* Dump's error return: "", 0, err.
ErrRet(err, path) == [path |-> <<>>, n |-> 0, err |-> <<err, path>>]

\* An error aborts Collect and Dump returns it at once, touching nothing.
Fail(err, path) ==
    /\ pc' = "failed"
    /\ ret' = ErrRet(err, path)
    /\ UNCHANGED <<c, disk, dirs, disk0, dirs0, queue, cur, out, items, idx, buf>>

\* filepath.WalkDir's os.Lstat of the root succeeds.
LstatRoot ==
    /\ pc = "call"
    /\ Lookup(disk, dirs, targetAbs).kind # "absent"
    /\ pc' = "walk"
    /\ queue' = <<targetAbs>>
    /\ UNCHANGED <<c, disk, dirs, disk0, dirs0, cur, out, items, idx, buf, ret>>

\* os.Lstat of the root fails (it does not exist, or cannot be reached): the
\* callback is called with the error and returns it.
LstatRootFails ==
    /\ pc = "call"
    /\ Fail("lstat", targetAbs)

\* The callback at a directory whose path contains an exclude entry.
VisitDirSkip ==
    /\ pc = "walk" /\ queue # <<>>
    /\ IsDir(Head(queue))
    /\ PruneDir(Head(queue))
    /\ queue' = Tail(queue)
    /\ UNCHANGED <<c, disk, dirs, disk0, dirs0, pc, cur, out, items, idx, buf, ret>>

\* The callback at any other directory returns nil and WalkDir reads it.
VisitDirEnter ==
    /\ pc = "walk" /\ queue # <<>>
    /\ IsDir(Head(queue))
    /\ ~PruneDir(Head(queue))
    /\ LET names == ReadDir(Head(queue))
       IN  queue' = [i \in 1..Len(names) |-> Join(Head(queue), names[i])]
                    \o Tail(queue)
    /\ UNCHANGED <<c, disk, dirs, disk0, dirs0, pc, cur, out, items, idx, buf, ret>>

\* os.ReadDir fails: WalkDir calls the callback again with the error.
ReadDirFails ==
    /\ pc = "walk" /\ queue # <<>>
    /\ IsDir(Head(queue))
    /\ ~PruneDir(Head(queue))
    /\ Fail("readdir", Head(queue))

\* The callback at a file that one of the filters rejects.
VisitFileSkip ==
    /\ pc = "walk" /\ queue # <<>>
    /\ IsFile(Head(queue))
    /\ ~SelectFile(Head(queue))
    /\ queue' = Tail(queue)
    /\ UNCHANGED <<c, disk, dirs, disk0, dirs0, pc, cur, out, items, idx, buf, ret>>

\* The callback at a file that passes the filters: os.Stat is next.
VisitFileSelect ==
    /\ pc = "walk" /\ queue # <<>>
    /\ IsFile(Head(queue))
    /\ SelectFile(Head(queue))
    /\ pc' = "stat"
    /\ cur' = [path |-> Head(queue), size |-> 0]
    /\ UNCHANGED <<c, disk, dirs, disk0, dirs0, queue, out, items, idx, buf, ret>>

Stat ==
    /\ pc = "stat"
    /\ pc' = "read"
    /\ cur' = [cur EXCEPT !.size = Len(disk[Clean(cur.path)])]
    /\ UNCHANGED <<c, disk, dirs, disk0, dirs0, queue, out, items, idx, buf, ret>>

StatFails ==
    /\ pc = "stat"
    /\ Fail("stat", cur.path)

\* os.ReadFile in the callback, the digest, and the append to out.
ReadFile ==
    /\ pc = "read"
    /\ out' = Append(out, NewItem(cur.path, disk[Clean(cur.path)], cur.size))
    /\ queue' = Tail(queue)
    /\ pc' = "walk"
    /\ UNCHANGED <<c, disk, dirs, disk0, dirs0, cur, items, idx, buf, ret>>

ReadFileFails ==
    /\ pc = "read"
    /\ Fail("read", cur.path)

-----------------------------------------------------------------------------
(* Dump                                                                    *)

\* fmt's %d of a size.
RECURSIVE Decimal(_)
Decimal(n) ==
    LET digit == <<"0", "1", "2", "3", "4", "5", "6", "7", "8", "9">>[(n % 10) + 1]
    IN  IF n < 10 THEN <<digit>> ELSE Decimal(n \div 10) \o <<digit>>

\* The buffer is the sequence of the bytes written to it; a fixed banner or
\* label, and a value of the environment (the time, the Go version, GOROOT),
\* is kept as one element.
HeaderClose == "// ======================\n"
BeginFile == "// ===== BEGIN FILE =====\n"
EndFile == "// ===== END FILE =====\n"
RelLabel == "// #rel_path: "
SizeLabel == "// #size_bytes: "
ShaLabel == "// #sha256: "
AbsLabel == "// #abs_path: "

\* The global header.
GlobalHeader ==
    <<"// ===== CODEDUMP GENERATED =====\n">>
    \o <<"// #pwd: ">> \o Getwd \o <<"\n">>
    \o <<"// #generated_at: ", "<time.RFC3339>", "\n">>
    \o <<"// #go_version: ", "<runtime.Version>", "\n">>
    \o <<"// #goroot: ", "<GOROOT>", "\n">>
    \o <<"// #root: ">> \o ToSlash(rootAbs) \o <<"\n">>
    \o <<"// #target: ">> \o ToSlash(targetAbs) \o <<"\n">>
    \o <<"// #out: ">> \o ToSlash(outAbs) \o <<"\n">>
    \o <<"// =================================\n", "\n">>

\* content := data; if !c.Pkg { content = StripPackageLine(data) }
Emitted(keep, data) == IF ~keep THEN StripPackageLine(data) ELSE data

\* A slip that never forces the newline.
NeedsNewlineNever(content) == FALSE

\* The condition under which buf.WriteByte('\n') runs.
NeedsNewline(content) == Len(content) > 0 /\ content[Len(content)] # "\n"

\* What the loop body writes for one item.
FileBlock(it, content) ==
    <<BeginFile>>
    \o <<RelLabel>> \o it.rel \o <<"\n">>
    \o <<AbsLabel>> \o ToSlash(it.abs) \o <<"\n">>
    \o <<SizeLabel>> \o Decimal(it.size) \o <<"\n">>
    \o <<ShaLabel>> \o it.sha \o <<"\n">>
    \o <<HeaderClose>>
    \o content
    \o (IF NeedsNewline(content) THEN <<"\n">> ELSE <<>>)
    \o <<EndFile, "\n">>

\* The walk is over: Collect sorts and returns, Dump writes the global header.
CollectReturn ==
    /\ pc = "walk" /\ queue = <<>>
    /\ items' = SortItems(out)
    /\ buf' = GlobalHeader
    /\ idx' = 1
    /\ pc' = "loop"
    /\ UNCHANGED <<c, disk, dirs, disk0, dirs0, queue, cur, out, ret>>

\* One turn of the per-item loop.
DumpItem ==
    /\ pc = "loop" /\ idx <= Len(items)
    /\ LET data == disk[Clean(items[idx].abs)]
       IN  buf' = buf \o FileBlock(items[idx], Emitted(c.Pkg, data))
    /\ idx' = idx + 1
    /\ UNCHANGED <<c, disk, dirs, disk0, dirs0, pc, queue, cur, out, items, ret>>

\* A slip that flushes what was built before returning the read error.
DumpReadFailsFlushed ==
    /\ pc = "loop" /\ idx <= Len(items)
    /\ pc' = "failed"
    /\ ret' = ErrRet("read", items[idx].abs)
    /\ disk' = [p \in DOMAIN disk \cup {Clean(outAbs)} |->
                   IF p = Clean(outAbs) THEN buf ELSE disk[p]]
    /\ dirs' = dirs \cup Ancestors(Clean(outAbs))
    /\ UNCHANGED <<c, disk0, dirs0, queue, cur, out, items, idx, buf>>

\* os.ReadFile fails in the per-item loop.
DumpReadFails ==
    /\ pc = "loop" /\ idx <= Len(items)
    /\ Fail("read", items[idx].abs)

\* os.MkdirAll(filepath.Dir(outAbs), 0o755)
MkdirAll ==
    /\ pc = "loop" /\ idx > Len(items)
    /\ LET d == Dir(outAbs)
       IN  /\ (Ancestors(d) \cup {d}) \cap DOMAIN disk = {}
           /\ dirs' = dirs \cup Ancestors(d) \cup {d}
    /\ pc' = "open"
    /\ UNCHANGED <<c, disk, disk0, dirs0, queue, cur, out, items, idx, buf, ret>>

\* os.MkdirAll fails (a file is in the way, or a directory cannot be made).
MkdirAllFails ==
    /\ pc = "loop" /\ idx > Len(items)
    /\ Fail("mkdir", Dir(outAbs))

\* os.WriteFile opens with O_WRONLY|O_CREATE|O_TRUNC: the file now exists
\* and is empty.
WriteFileOpen ==
    /\ pc = "open"
    /\ Clean(outAbs) \notin dirs
    /\ disk' = [p \in DOMAIN disk \cup {Clean(outAbs)} |->
                   IF p = Clean(outAbs) THEN <<>> ELSE disk[p]]
    /\ pc' = "write"
    /\ UNCHANGED <<c, dirs, disk0, dirs0, queue, cur, out, items, idx, buf, ret>>

\* The open fails: nothing is changed.
WriteFileOpenFails ==
    /\ pc = "open"
    /\ Fail("open", outAbs)

\* The write of the whole buffer succeeds and Dump returns.
WriteFileWrite ==
    /\ pc = "write"
    /\ disk' = [disk EXCEPT ![Clean(outAbs)] = buf]
    /\ pc' = "done"
    /\ ret' = [path |-> outAbs, n |-> Len(items), err |-> <<>>]
    /\ UNCHANGED <<c, dirs, disk0, dirs0, queue, cur, out, items, idx, buf>>

\* The write fails part-way (a full disk, an I/O error): a prefix of the
\* buffer is in the file.  Two cuts stand for all: nothing, all but the end.
WriteFileWriteFails ==
    /\ pc = "write"
    /\ \E k \in {0, Len(buf) - 1} :
          disk' = [disk EXCEPT ![Clean(outAbs)] = SubSeq(buf, 1, k)]
    /\ pc' = "failed"
    /\ ret' = ErrRet("write", outAbs)
    /\ UNCHANGED <<c, dirs, disk0, dirs0, queue, cur, out, items, idx, buf>>

-----------------------------------------------------------------------------
(* Spec: one run of Dump                                                   *)

\* The values the variables of the other specifications rest at.
StripIdle ==
    /\ src = <<>> /\ pkg = FALSE /\ emitted = <<>> /\ once = <<>> /\ twice = <<>>
    /\ spc = "idle"
CliIdle == fl = <<>> /\ given = {} /\ rc = <<>> /\ cli = <<>> /\ mpc = "idle"
DumpIdle ==
    /\ c = <<>> /\ disk = <<>> /\ dirs = {} /\ disk0 = <<>> /\ dirs0 = {}
    /\ pc = "idle" /\ queue = <<>> /\ cur = <<>> /\ out = <<>> /\ items = <<>>
    /\ idx = 0 /\ buf = <<>> /\ ret = <<>>

\* The tree: at most MaxFiles of the candidate files, and the directories
\* above them; the contents are dealt to the files in a rotation, so that
\* every file takes every content.
Init ==
    /\ c \in Configs
    /\ \E present \in SUBSET (1..Len(CandidateFiles)) :
       \E shift \in 0..(Len(Contents) - 1) :
          /\ Cardinality(present) <= MaxFiles
          /\ disk = [p \in {CandidateFiles[i] : i \in present} |->
                       LET i == CHOOSE j \in present : CandidateFiles[j] = p
                       IN  Contents[((i + shift) % Len(Contents)) + 1]]
    /\ dirs = {<<Separator>>, Getwd} \cup UNION {Ancestors(p) : p \in DOMAIN disk}
    /\ disk0 = disk
    /\ dirs0 = dirs
    /\ pc = "call"
    /\ queue = <<>> /\ cur = <<>> /\ out = <<>> /\ items = <<>>
    /\ idx = 0 /\ buf = <<>> /\ ret = <<>>
    /\ StripIdle /\ CliIdle

Next ==
    \/ (LstatRoot /\ UNCHANGED <<stripVars, cliVars>>)
    \/ (LstatRootFails /\ UNCHANGED <<stripVars, cliVars>>)
    \/ (VisitDirSkip /\ UNCHANGED <<stripVars, cliVars>>)
    \/ (VisitDirEnter /\ UNCHANGED <<stripVars, cliVars>>)
    \/ (ReadDirFails /\ UNCHANGED <<stripVars, cliVars>>)
    \/ (VisitFileSkip /\ UNCHANGED <<stripVars, cliVars>>)
    \/ (VisitFileSelect /\ UNCHANGED <<stripVars, cliVars>>)
    \/ (Stat /\ UNCHANGED <<stripVars, cliVars>>)
    \/ (StatFails /\ UNCHANGED <<stripVars, cliVars>>)
    \/ (ReadFile /\ UNCHANGED <<stripVars, cliVars>>)
    \/ (ReadFileFails /\ UNCHANGED <<stripVars, cliVars>>)
    \/ (CollectReturn /\ UNCHANGED <<stripVars, cliVars>>)
    \/ (DumpItem /\ UNCHANGED <<stripVars, cliVars>>)
    \/ (DumpReadFails /\ UNCHANGED <<stripVars, cliVars>>)
    \/ (MkdirAll /\ UNCHANGED <<stripVars, cliVars>>)
    \/ (MkdirAllFails /\ UNCHANGED <<stripVars, cliVars>>)
    \/ (WriteFileOpen /\ UNCHANGED <<stripVars, cliVars>>)
    \/ (WriteFileOpenFails /\ UNCHANGED <<stripVars, cliVars>>)
    \/ (WriteFileWrite /\ UNCHANGED <<stripVars, cliVars>>)
    \/ (WriteFileWriteFails /\ UNCHANGED <<stripVars, cliVars>>)

Spec == Init /\ [][Next]_vars

-----------------------------------------------------------------------------
(* Reading the run                                                         *)

\* The paths of the collected items.
ItemPaths == {items[i].abs : i \in 1..Len(items)}

\* Clean path p is the clean directory d or lies below it.
AtOrBelow(d, p) ==
    \/ p = d
    \/ d = <<Separator>>
    \/ HasPrefix(p, d \o <<Separator>>)

\* The regular files at or below the target when Dump was called.
UnderTarget ==
    LET t == Clean(targetAbs) IN {p \in DOMAIN disk0 : AtOrBelow(t, p)}

\* The directories from the target down to (not including) path p.
DirsAbove(p) ==
    LET t == Clean(targetAbs)
    IN  {d \in dirs0 : d # p /\ AtOrBelow(d, p) /\ AtOrBelow(t, d)}

\* The position in b of the k-th occurrence of the element tok.
Occurrence(b, tok, k) ==
    CHOOSE j \in 1..Len(b) :
        b[j] = tok /\ Cardinality({i \in 1..j : b[i] = tok}) = k

\* The number of occurrences of tok in b.
Count(b, tok) == Cardinality({i \in 1..Len(b) : b[i] = tok})

\* The bytes of the k-th file block between the header-closing line and the
\* END FILE line.
BlockBody(b, k) ==
    SubSeq(b, Occurrence(b, HeaderClose, k) + 1, Occurrence(b, EndFile, k) - 1)

\* The #rel_path value of the k-th file block.
BlockRel(b, k) ==
    SubSeq(b, Occurrence(b, RelLabel, k) + 1, Occurrence(b, AbsLabel, k) - 2)

\* The exclude entries as the spec derives them: split on commas, trimmed,
\* slashes normalized, empty entries dropped.
ExcludeEntries ==
    LET parts == SplitOn(c.Exclude, ",")
    IN  {ToSlash(TrimSpace(parts[i])) : i \in 1..Len(parts)} \ {<<>>}

\* An exclude entry occurs in the slash-normalized path.
HasExcludedPart(p) == \E e \in ExcludeEntries : Contains(ToSlash(p), e)

\* The directories of the tree whose path holds an exclude entry.
PrunedDirs == {d \in dirs0 : HasExcludedPart(d)}

\* The spec's shouldCollectFile.
ShouldCollectFile(p) ==
    /\ HasSuffix(p, c.Ext)
    /\ Base(p) # c.Out
    /\ (c.Include = <<>> \/ Contains(ToSlash(p), c.Include))
    /\ ~HasExcludedPart(p)

-----------------------------------------------------------------------------
(* Claims about Dump and Collect, under Spec                               *)

\* C1: no collected item has a basename equal to the basename of the
\* configured out path, whatever the form of out (bare name, relative path
\* with directories, absolute path).
C1_SelfExclusion ==
    \A i \in 1..Len(items) : Base(items[i].abs) # Base(c.Out)

\* C2: when Dump has returned, every file other than the output path is as
\* it was, every collected file has the bytes it had, the only directories
\* made are those above the output path, and an output path that was
\* written is not the path of a collected file.
C2_SourcesNotMutated ==
    pc \in {"done", "failed"} =>
        /\ \A p \in DOMAIN disk0 \cup DOMAIN disk :
              p # Clean(outAbs) => p \in DOMAIN disk0 /\ p \in DOMAIN disk
                                    /\ disk[p] = disk0[p]
        /\ dirs0 \subseteq dirs /\ dirs \ dirs0 \subseteq Ancestors(Clean(outAbs))
        /\ \A p \in ItemPaths : p \in DOMAIN disk /\ disk[p] = disk0[p]
        /\ Lookup(disk, dirs, outAbs) # Lookup(disk0, dirs0, outAbs)
              => Clean(outAbs) \notin ItemPaths

\* C3: when an enumeration, stat or read error ends the run, Dump returns
\* the error with an empty path and a count of 0, the output path is as it
\* was before the run, and no directory was created.
C3_FailFast ==
    (pc = "failed" /\ ret.err[1] \in {"lstat", "readdir", "stat", "read"}) =>
        /\ ret.path = <<>> /\ ret.n = 0
        /\ Lookup(disk, dirs, outAbs) = Lookup(disk0, dirs0, outAbs)
        /\ dirs = dirs0
        /\ disk = disk0

\* C3's case: the read of the second item fails in Dump's loop, with one
\* block already in the buffer and an output file present from before.
C3_Witness ==
    /\ pc = "failed" /\ ret.err[1] = "read"
    /\ idx = 2 /\ Len(items) >= 2
    /\ Lookup(disk0, dirs0, outAbs).kind = "file"

\* C4: at every point of the run a reader of the output path finds either
\* what was there before the run or the complete new artifact.
C4_AtomicArtifact ==
    \/ Lookup(disk, dirs, outAbs) = Lookup(disk0, dirs0, outAbs)
    \/ Lookup(disk, dirs, outAbs) = [kind |-> "file", bytes |-> buf]

\* C5: the list Collect returns is strictly ascending in rel, byte-wise, and
\* holds the items of the walk; the blocks of the buffer are those of the
\* items in that order, one per item; the count returned is the number of
\* BEGIN FILE blocks written.
C5_Order ==
    /\ \A i \in 1..(Len(items) - 1) : StrLess(items[i].rel, items[i + 1].rel)
    /\ pc \in {"loop", "open", "write", "done"} =>
          /\ Len(items) = Len(out)
          /\ ItemPaths = {out[i].abs : i \in 1..Len(out)}
          /\ Count(buf, BeginFile) = idx - 1
          /\ \A k \in 1..(idx - 1) : BlockRel(buf, k) = items[k].rel
    /\ pc = "done" =>
          /\ ret.n = Count(disk[Clean(outAbs)], BeginFile)
          /\ ret.n = Len(items)

\* C5's case: a finished run whose walk met the files in another order than
\* the order of their relative paths.
C5_Witness ==
    /\ pc = "done" /\ Len(items) >= 2
    /\ \E i \in 1..(Len(out) - 1) : StrLess(out[i + 1].rel, out[i].rel)

\* C6: the walk never goes below a directory whose path holds an exclude
\* entry, returns no error for such a directory, collects nothing below it,
\* and collects every other file under the target that passes the filters.
C6_Pruning ==
    LET pruned == PrunedDirs
    IN  /\ \A i \in 1..Len(queue) : DirsAbove(queue[i]) \cap pruned = {}
        /\ (pc = "failed" /\ ret.err[1] = "readdir") => Clean(ret.err[2]) \notin pruned
        /\ \A i \in 1..Len(out) : DirsAbove(out[i].abs) \cap pruned = {}
        /\ pc \in {"loop", "open", "write", "done"} =>
              ItemPaths = {p \in UnderTarget :
                              /\ ShouldCollectFile(p)
                              /\ DirsAbove(p) \cap pruned = {}}

\* C6's case: a finished run over /w in which /w/a-b was pruned, a file
\* with the extension lies below it, and a file elsewhere was collected.
C6_Witness ==
    /\ pc = "done" /\ targetAbs = Getwd
    /\ HasExcludedPart(<<"/", "w", "/", "a", "-", "b">>)
    /\ <<"/", "w", "/", "a", "-", "b", "/", "y", ".", "g">> \in DOMAIN disk0
    /\ Len(items) >= 1

\* C7 (as claimed): the bytes of every file block between the
\* header-closing line and the END FILE line end with a newline.
C7_TrailingNewline ==
    \A k \in 1..Count(buf, EndFile) :
        BlockBody(buf, k) # <<>> /\ BlockBody(buf, k)[Len(BlockBody(buf, k))] = "\n"

\* C7 (amended): for every item whose emitted content is not empty, those
\* bytes end with a newline; for an item whose emitted content is empty (on
\* disk, or after the declaration line was stripped) nothing is written
\* between the two lines.
C7_TrailingNewlineNonEmpty ==
    \A k \in 1..Count(buf, EndFile) :
        LET body == BlockBody(buf, k)
            data == disk0[Clean(items[k].abs)]
            content == IF c.Pkg THEN data ELSE StripPackageLine(data)
        IN  /\ content = <<>> => body = <<>>
            /\ content # <<>> =>
                  /\ body[Len(body)] = "\n"
                  /\ body \in {content, content \o <<"\n">>}

\* C7's case: a finished run with a block for a file that has no final
\* newline and a block for a file that is empty once stripped.
C7_Witness ==
    /\ pc = "done"
    /\ \E k \in 1..Len(items) : disk0[Clean(items[k].abs)] = <<"x">>
    /\ \E k \in 1..Len(items) :
          /\ disk0[Clean(items[k].abs)] # <<>>
          /\ BlockBody(buf, k) = <<>>

-----------------------------------------------------------------------------
(* SpecRace: a run of Dump while another process rewrites the files        *)

\* The files of the tree another process rewrites: a file with the
\* extension in a plain directory, one in a directory an exclude entry
\* names, and one with another extension.
RaceFiles ==
    { <<"/", "w", "/", "a", "/", "x", ".", "g">>,
      <<"/", "w", "/", "a", "-", "b", "/", "y", ".", "g">>,
      <<"/", "w", "/", "a", ".", "t">> }

\* The Configs of these runs: the artifact goes to /w/o.g.
RaceConfigs ==
    {cfg \in Configs :
        /\ cfg.Root = <<".">> /\ cfg.Target = <<".">>
        /\ cfg.Out = <<"o", ".", "g">> /\ cfg.Ext = <<".", "g">>
        /\ cfg.Include = <<>>}

\* The contents these files take, at the start and at a rewrite: one with no
\* declaration line and no final newline, one with both, of other length.
RaceContents == {Contents[2], Contents[4]}

InitRace ==
    /\ c \in RaceConfigs
    /\ disk \in [RaceFiles -> RaceContents]
    /\ dirs = {<<Separator>>, Getwd} \cup UNION {Ancestors(p) : p \in DOMAIN disk}
    /\ disk0 = disk
    /\ dirs0 = dirs
    /\ pc = "call"
    /\ queue = <<>> /\ cur = <<>> /\ out = <<>> /\ items = <<>>
    /\ idx = 0 /\ buf = <<>> /\ ret = <<>>
    /\ StripIdle /\ CliIdle

\* Another process replaces the bytes of a source file while Dump runs;
\* nothing in Dump or Collect holds a lock or a descriptor across its
\* os.Stat, os.ReadFile and second os.ReadFile of a path.
ExternalRewrite ==
    /\ pc \in {"call", "walk", "stat", "read", "loop"}
    /\ \E p \in DOMAIN disk0 \ {Clean(outAbs)} :
       \E bytes \in RaceContents :
          /\ bytes # disk[p]
          /\ disk' = [disk EXCEPT ![p] = bytes]
    /\ UNCHANGED <<c, dirs, disk0, dirs0, pc, queue, cur, out, items, idx, buf, ret>>

NextRace ==
    \/ Next
    \/ (ExternalRewrite /\ UNCHANGED <<stripVars, cliVars>>)

SpecRace == InitRace /\ [][NextRace]_vars

\* The decimal of the #size_bytes line of the k-th file block.
BlockSize(b, k) ==
    SubSeq(b, Occurrence(b, SizeLabel, k) + 1, Occurrence(b, ShaLabel, k) - 2)

\* The value of the #sha256 line of the k-th file block.
BlockSha(b, k) ==
    SubSeq(b, Occurrence(b, ShaLabel, k) + 1, Occurrence(b, HeaderClose, k) - 2)

\* The bytes a digest was taken of (the digest is kept symbolic).
Digested(sha) == Tail(sha)

\* The body of a block whose emitted content is content.
BodyOf(content) ==
    IF content # <<>> /\ content[Len(content)] # "\n"
    THEN content \o <<"\n">> ELSE content

\* C11: in every file block the #sha256, the #size_bytes and the body are
\* those of one and the same raw content of the file: the size is the length
\* of the bytes digested; with Pkg true the body is those bytes (with the
\* final newline Dump adds), so digest and length of the emitted content
\* equal the block's; with Pkg false the body is those bytes less the
\* declaration line.  Claimed for every run, rewrites by another process
\* between the stat and the two reads included.
C11_HashAuthenticates ==
    \A k \in 1..Count(buf, EndFile) :
        LET raw == Digested(BlockSha(buf, k))
        IN  /\ BlockSize(buf, k) = Decimal(Len(raw))
            /\ c.Pkg => BlockBody(buf, k) = BodyOf(raw)
            /\ ~c.Pkg => BlockBody(buf, k) = BodyOf(StripPackageLine(raw))

-----------------------------------------------------------------------------
(* SpecInclude: runs of Dump with an include filter                        *)

\* The include substring of these runs.
DTO == <<"D", "T", "O">>

\* The trees hold a_DTO.go and b.go in a directory /w/k and in a directory
\* /w/DTO.
IncludeFiles ==
    { <<"/", "w", "/", "k", "/", "a", "_", "D", "T", "O", ".", "g", "o">>,
      <<"/", "w", "/", "k", "/", "b", ".", "g", "o">>,
      <<"/", "w", "/", "D", "T", "O", "/", "a", "_", "D", "T", "O", ".", "g", "o">>,
      <<"/", "w", "/", "D", "T", "O", "/", "b", ".", "g", "o">> }

\* A file's bytes hold the include substring, or do not.
IncludeContents == { <<"x">>, <<"D", "T", "O", "\n">> }

\* The target is /w, /w/k or /w/DTO; the filter is off or "DTO"; the
\* exclude list is empty or names the directory k.
IncludeConfigs ==
    [Root : {<<".">>}, Target : {<<".">>, <<"k">>, DTO},
     Out : {<<"o", ".", "g", "o">>}, Ext : {<<".", "g", "o">>},
     Include : {<<>>, DTO}, Exclude : {<<>>, <<"/", "k">>}, Pkg : {TRUE}]

InitInclude ==
    /\ c \in IncludeConfigs
    /\ disk \in [IncludeFiles -> IncludeContents]
    /\ dirs = {<<Separator>>, Getwd} \cup UNION {Ancestors(p) : p \in DOMAIN disk}
    /\ disk0 = disk
    /\ dirs0 = dirs
    /\ pc = "call"
    /\ queue = <<>> /\ cur = <<>> /\ out = <<>> /\ items = <<>>
    /\ idx = 0 /\ buf = <<>> /\ ret = <<>>
    /\ StripIdle /\ CliIdle

SpecInclude == InitInclude /\ [][Next]_vars

\* The files under the target that pass the ext, self-exclusion and exclude
\* checks and lie below no pruned directory.
PassOtherChecks ==
    {p \in UnderTarget :
        /\ HasSuffix(p, c.Ext)
        /\ Base(p) # c.Out
        /\ ~HasExcludedPart(p)
        /\ DirsAbove(p) \cap PrunedDirs = {}}

\* C12 (first sentence): with a non-empty include, such a file is collected
\* if and only if its slash-normalized path contains include; the bytes of
\* the files play no part.
C12_SelectsByPath ==
    (pc \in {"loop", "open", "write", "done"} /\ c.Include # <<>>) =>
        ItemPaths = {p \in PassOtherChecks : Contains(ToSlash(p), c.Include)}

\* C12: the include filter selects by path, and for the files a_DTO.go and
\* b.go with include "DTO" only a_DTO.go is collected (every a_DTO.go that
\* passes the other checks, and no b.go), wherever the target directory is.
C12_IncludeByPath ==
    /\ C12_SelectsByPath
    /\ (pc \in {"loop", "open", "write", "done"} /\ c.Include = DTO) =>
          ItemPaths = {p \in PassOtherChecks :
                          Base(p) = <<"a", "_", "D", "T", "O", ".", "g", "o">>}

-----------------------------------------------------------------------------
(* SpecStrip: the content transform on bounded inputs                      *)

\* An input is at most this many segments, one after the other.
MaxSegs == 4

\* The segments: a package line's text, a newline, a space, other text, and
\* the keyword alone.
Segments ==
    { <<"p", "a", "c", "k", "a", "g", "e", " ", "m">>, <<"\n">>, <<" ">>, <<"x">>, <<"p", "a", "c", "k", "a", "g", "e">> }

Inputs ==
    {Flatten(t) : t \in UNION {[1..n -> Segments] : n \in 0..MaxSegs}}

InitStrip ==
    /\ src \in Inputs
    /\ pkg \in BOOLEAN
    /\ emitted = <<>> /\ once = <<>> /\ twice = <<>>
    /\ spc = "start"
    /\ DumpIdle /\ CliIdle

\* Dump's choice of the content of an item.
EmitContent ==
    /\ spc = "start"
    /\ emitted' = Emitted(pkg, src)
    /\ spc' = "emitted"
    /\ UNCHANGED <<src, pkg, once, twice>>

\* The transform applied to the raw bytes.
StripOnce ==
    /\ spc = "emitted"
    /\ once' = StripPackageLine(src)
    /\ spc' = "once"
    /\ UNCHANGED <<src, pkg, emitted, twice>>

\* The transform applied to its own result.
StripTwice ==
    /\ spc = "once"
    /\ twice' = StripPackageLine(once)
    /\ spc' = "twice"
    /\ UNCHANGED <<src, pkg, emitted, once>>

NextStrip ==
    \/ (EmitContent /\ UNCHANGED <<dumpVars, cliVars>>)
    \/ (StripOnce /\ UNCHANGED <<dumpVars, cliVars>>)
    \/ (StripTwice /\ UNCHANGED <<dumpVars, cliVars>>)

SpecStrip == InitStrip /\ [][NextStrip]_vars

\* A line whose content, once the white space around it is trimmed, starts
\* with "package ": white space, then the keyword and a space, then at least
\* one byte that is not white space.
StartsWithPackage(ln) ==
    \E i \in 1..Len(ln) :
        /\ \A j \in 1..(i - 1) : IsSpace(ln[j])
        /\ Len(ln) >= i + Len(PackagePrefix)
        /\ SubSeq(ln, i, i + Len(PackagePrefix) - 1) = PackagePrefix
        /\ \E j \in (i + Len(PackagePrefix))..Len(ln) : ~IsSpace(ln[j])

\* The indices of the lines of s that start with "package ".
PackageLines(s) ==
    {i \in 1..Len(SplitOn(s, "\n")) : StartsWithPackage(SplitOn(s, "\n")[i])}

\* s without its first line that starts with "package " (s itself if none).
WithoutFirstPackageLine(s) ==
    LET lines == SplitOn(s, "\n")
        first == CHOOSE i \in PackageLines(s) : \A j \in PackageLines(s) : i <= j
    IN  IF PackageLines(s) = {} THEN s
        ELSE JoinWith(SubSeq(lines, 1, first - 1) \o SubSeq(lines, first + 1, Len(lines)),
                      "\n")

\* C8: StripPackageLine returns the lines of its input with only the first
\* line that starts with "package " removed, every other line as it was and
\* in order, and an input without such a line unchanged; with Pkg true Dump
\* emits the raw bytes.
C8_StripFirstOnly ==
    /\ spc \in {"emitted", "once", "twice"} =>
          emitted = IF pkg THEN src ELSE WithoutFirstPackageLine(src)
    /\ spc \in {"once", "twice"} => once = WithoutFirstPackageLine(src)
    /\ spc = "twice" => twice = WithoutFirstPackageLine(once)

\* C8's case: stripping applied to an input with two package lines, the
\* first of them indented.
C8_Witness ==
    /\ spc = "once" /\ ~pkg
    /\ Cardinality(PackageLines(src)) = 2
    /\ \E i \in PackageLines(src) : SplitOn(src, "\n")[i][1] = " "
    /\ Cardinality(PackageLines(once)) = 1

\* C9 (as claimed): applying StripPackageLine to its own result changes
\* nothing.
C9_Idempotent == spc = "twice" => twice = once

\* C9 (amended): applying StripPackageLine to its own result changes
\* nothing exactly when the input has at most one line starting with
\* "package "; with two or more, the second application removes the next.
C9_IdempotentUpToOneLine ==
    spc = "twice" =>
        /\ (twice = once) <=> (Cardinality(PackageLines(src)) <= 1)
        /\ Cardinality(PackageLines(src)) >= 2 =>
              Cardinality(PackageLines(twice)) = Cardinality(PackageLines(src)) - 2

\* C9's case: an input with exactly one package line, stripped twice.
C9_Witness ==
    /\ spc = "twice"
    /\ Cardinality(PackageLines(src)) = 1
    /\ once # src
    /\ twice = once

-----------------------------------------------------------------------------
(* SpecCLI: main builds the Config from the defaults, the RC file, the flags *)

UpperCase == <<"A", "B", "C", "D", "E", "F", "G", "H", "I", "J", "K", "L",
               "M", "N", "O", "P", "Q", "R", "S", "T", "U", "V", "W", "X",
               "Y", "Z">>
LowerCase == <<"a", "b", "c", "d", "e", "f", "g", "h", "i", "j", "k", "l",
               "m", "n", "o", "p", "q", "r", "s", "t", "u", "v", "w", "x",
               "y", "z">>

\* strings.ToLower (ASCII)
ToLower(s) ==
    [i \in 1..Len(s) |->
        IF \E j \in 1..Len(UpperCase) : UpperCase[j] = s[i]
        THEN LowerCase[CHOOSE j \in 1..Len(UpperCase) : UpperCase[j] = s[i]]
        ELSE s[i]]

\* strings.EqualFold (ASCII)
EqualFold(s, t) == ToLower(s) = ToLower(t)

\* strings.SplitN(ln, "=", 2)
SplitN2(ln) ==
    IF \A i \in 1..Len(ln) : ln[i] # "=" THEN <<ln>>
    ELSE LET i == CHOOSE j \in 1..Len(ln) :
                      ln[j] = "=" /\ \A k \in 1..(j - 1) : ln[k] # "="
         IN  <<SubSeq(ln, 1, i - 1), SubSeq(ln, i + 1, Len(ln))>>

DefaultConfig ==
    [Root |-> <<".">>,
     Target |-> <<".", "/", "m", "o", "d", "e", "l", "s">>,
     Out |-> <<"m", "o", "d", "e", "l", "s", "_", "t", "r", "e", "e", ".",
               "t", "x", "t">>,
     Ext |-> <<".", "g", "o">>,
     Include |-> <<>>,
     Exclude |-> <<"_", "t", "e", "s", "t", ".", "g", "o", ",", "/", ".",
                   "g", "i", "t", "/", ",", "/", "v", "e", "n", "d", "o",
                   "r", "/">>,
     Pkg |-> FALSE]

\* The switch of ReadRC for one key and value.
Assign(cfg, k, v) ==
    CASE ToLower(k) = <<"r", "o", "o", "t">> -> [cfg EXCEPT !.Root = v]
      [] ToLower(k) = <<"t", "a", "r", "g", "e", "t">> -> [cfg EXCEPT !.Target = v]
      [] ToLower(k) = <<"o", "u", "t">> -> [cfg EXCEPT !.Out = v]
      [] ToLower(k) = <<"e", "x", "t">> -> [cfg EXCEPT !.Ext = v]
      [] ToLower(k) = <<"e", "x", "c", "l", "u", "d", "e">> -> [cfg EXCEPT !.Exclude = v]
      [] ToLower(k) = <<"i", "n", "c", "l", "u", "d", "e">> -> [cfg EXCEPT !.Include = v]
      [] ToLower(k) = <<"p", "k", "g">> ->
            [cfg EXCEPT !.Pkg = \/ EqualFold(v, <<"t", "r", "u", "e">>)
                                \/ v = <<"1">>
                                \/ EqualFold(v, <<"y", "e", "s">>)]
      [] OTHER -> cfg

\* The loop of ReadRC over the lines of the file.
RECURSIVE ReadRCLoop(_, _)
ReadRCLoop(lines, cfg) ==
    IF lines = <<>> THEN cfg
    ELSE LET ln == TrimSpace(lines[1])
             kv == SplitN2(ln)
         IN  IF ln = <<>> \/ HasPrefix(ln, <<"#">>) THEN ReadRCLoop(Tail(lines), cfg)
             ELSE IF Len(kv) # 2 THEN ReadRCLoop(Tail(lines), cfg)
             ELSE ReadRCLoop(Tail(lines),
                             Assign(cfg, TrimSpace(kv[1]), TrimSpace(kv[2])))

ReadRC(bytes, cfg) == ReadRCLoop(SplitOn(bytes, "\n"), cfg)

\* The CLI overrides: a string flag overrides when it is not empty, the pkg
\* flag when it is true.  What was given on the command line is not looked at.
Overrides(cfg, flags) ==
    [Root |-> IF flags.Root # <<>> THEN flags.Root ELSE cfg.Root,
     Target |-> IF flags.Target # <<>> THEN flags.Target ELSE cfg.Target,
     Out |-> IF flags.Out # <<>> THEN flags.Out ELSE cfg.Out,
     Ext |-> IF flags.Ext # <<>> THEN flags.Ext ELSE cfg.Ext,
     Include |-> IF flags.Include # <<>> THEN flags.Include ELSE cfg.Include,
     Exclude |-> IF flags.Exclude # <<>> THEN flags.Exclude ELSE cfg.Exclude,
     Pkg |-> IF flags.Pkg THEN TRUE ELSE cfg.Pkg]

StringFlags == {"Root", "Target", "Out", "Ext", "Include", "Exclude"}

\* The RC files of the runs.
RCFiles ==
    { <<"o", "u", "t", "=", "r", "c", ".", "t", "x", "t", "\n", "p", "k",
        "g", "=", "t", "r", "u", "e", "\n">>,
      <<"#", " ", "c", "\n", "R", "O", "O", "T", " ", "=", " ", "r", "r",
        " ", "\n", "i", "n", "c", "l", "u", "d", "e", "=", "i", "n", "c",
        "\n", "e", "x", "c", "l", "u", "d", "e", "=", "e", "x", "\n", "P",
        "k", "g", "=", "Y", "E", "S", "\n", "n", "o", "e", "q", "u", "a",
        "l", "s", "\n">>,
      <<"t", "a", "r", "g", "e", "t", "=", "t", "\n", "e", "x", "t", "=",
        ".", "r", "c", "\n", "p", "k", "g", "=", "f", "a", "l", "s", "e",
        "\n">> }

\* After flag.Parse: each string flag was not given, given empty or given
\* with a value; --pkg was not given, given as true or given as false.  A
\* flag that was not given holds its default ("" or false).  The RC path is
\* empty (none given, none found) or names one of the RC files.
InitCLI ==
    /\ \E ch \in [StringFlags -> {"unset", "empty", "value"}] :
       \E pk \in {"unset", "true", "false"} :
          /\ given = {k \in StringFlags : ch[k] # "unset"}
                     \cup (IF pk # "unset" THEN {"Pkg"} ELSE {})
          /\ fl = [k \in StringFlags \cup {"Pkg"} |->
                      IF k = "Pkg" THEN pk = "true"
                      ELSE IF ch[k] = "value" THEN <<"f">> ELSE <<>>]
    /\ rc \in {[found |-> FALSE, bytes |-> <<>>]}
              \cup {[found |-> TRUE, bytes |-> b] : b \in RCFiles}
    /\ cli = <<>>
    /\ mpc = "start"
    /\ DumpIdle /\ StripIdle

\* c := codedump.DefaultConfig()
LoadDefaults ==
    /\ mpc = "start"
    /\ cli' = DefaultConfig
    /\ mpc' = "rc"
    /\ UNCHANGED <<fl, given, rc>>

\* rcPath is empty: no RC file is read.
NoRC ==
    /\ mpc = "rc" /\ ~rc.found
    /\ mpc' = "flags"
    /\ UNCHANGED <<fl, given, rc, cli>>

\* codedump.ReadRC(rcPath, &c)
ReadRCFile ==
    /\ mpc = "rc" /\ rc.found
    /\ cli' = ReadRC(rc.bytes, cli)
    /\ mpc' = "flags"
    /\ UNCHANGED <<fl, given, rc>>

\* ReadRC returns an error: fatal.
ReadRCFails ==
    /\ mpc = "rc" /\ rc.found
    /\ mpc' = "fatal"
    /\ UNCHANGED <<fl, given, rc, cli>>

\* The overrides; Dump is then called with c.
ApplyOverrides ==
    /\ mpc = "flags"
    /\ cli' = Overrides(cli, fl)
    /\ mpc' = "dump"
    /\ UNCHANGED <<fl, given, rc>>

NextCLI ==
    \/ (LoadDefaults /\ UNCHANGED <<dumpVars, stripVars>>)
    \/ (NoRC /\ UNCHANGED <<dumpVars, stripVars>>)
    \/ (ReadRCFile /\ UNCHANGED <<dumpVars, stripVars>>)
    \/ (ReadRCFails /\ UNCHANGED <<dumpVars, stripVars>>)
    \/ (ApplyOverrides /\ UNCHANGED <<dumpVars, stripVars>>)

SpecCLI == InitCLI /\ [][NextCLI]_vars

\* C10: when an RC file was read, every flag given on the command line has
\* its value in the Config passed to Dump.
C10_FlagsWin ==
    (mpc = "dump" /\ rc.found) => \A k \in given : cli[k] = fl[k]

====
